---- MODULE Spec2Model ----
(***************************************************************************)
(* PPO-Lag: the Lagrange multiplier module (agents/naive_lagrange.py), the *)
(* constrained policy loss (agents/ppolag.py) and the optimizer that       *)
(* train.py builds over the loss module's parameters.                      *)
(*                                                                         *)
(* Numbers.  Every real quantity is a fixed-point integer in thousandths   *)
(* (1000 stands for 1.0); a product or quotient is rounded to the nearest  *)
(* thousandth, as a float operation rounds to the nearest float.  The      *)
(* transcendental functions (softplus, its derivative, its inverse, exp,   *)
(* log1p) are tabulated at the points the model visits; every table entry  *)
(* is the true value rounded to a thousandth.                              *)
(***************************************************************************)
EXTENDS Integers, Sequences, FiniteSets, TLC

VARIABLES
    cfg,      \* PPOLagLoss constructor arguments (fixed after construction)
    lag,      \* PPOLagLoss.lag: the unconstrained Lagrange parameter
    adam,     \* torch.optim.Adam state of the parameter lag
    nl_lag,   \* NaiveLagrange.lag
    nl_steps, \* dual steps taken on NaiveLagrange.lag
    okeys,    \* PPOLagLoss._out_keys cache and the outcome of the last out_keys access
    call,     \* the last call of forward / NaiveLagrange.forward, as its caller sees it
    last      \* the last training iteration: what was requested, and the multiplier before it

vars == <<cfg, lag, adam, nl_lag, nl_steps, okeys, call, last>>

----------------------------------------------------------------------------
(* Fixed-point arithmetic *)

Milli == 10^3

Abs(x) == IF x < 0 THEN -x ELSE x

Sign(x) == IF x > 0 THEN 1 ELSE IF x < 0 THEN -1 ELSE 0

Min2(a, b) == IF a <= b THEN a ELSE b

Max2(a, b) == IF a >= b THEN a ELSE b

\* a / b rounded to the nearest integer (b # 0)
RDiv(a, b) == Sign(a) * Sign(b) * ((2 * Abs(a) + Abs(b)) \div (2 * Abs(b)))

FMul(a, b) == RDiv(a * b, Milli)

FDiv(a, b) == RDiv(a * Milli, b)

RECURSIVE ISqrtFrom(_, _, _)
ISqrtFrom(x, lo, hi) ==
    IF lo >= hi THEN lo
    ELSE LET mid == (lo + hi + 1) \div 2
         IN  IF mid * mid <= x THEN ISqrtFrom(x, mid, hi) ELSE ISqrtFrom(x, lo, mid - 1)

\* floor of the square root of x, 0 <= x < 2^30
ISqrt(x) == ISqrtFrom(x, 0, 2^15)

----------------------------------------------------------------------------
(* Tensors: a tensor of shape (n,) is a sequence of n numbers, a tensor of  *)
(* shape (n, k) a sequence of n sequences of k numbers.                     *)

RECURSIVE Sum(_)
Sum(t) == IF Len(t) = 0 THEN 0 ELSE Head(t) + Sum(Tail(t))

Numel(t) == Len(t)

Mean(t) == RDiv(Sum(t), Numel(t))

Zeros(n) == [i \in 1..n |-> 0]

\* torch broadcasting of two one-dimensional shapes: equal, or one of them 1
Broadcastable(a, b) == Len(a) = Len(b) \/ Len(a) = 1 \/ Len(b) = 1

BLen(a, b) == Max2(Len(a), Len(b))

At(t, i) == IF Len(t) = 1 THEN t[1] ELSE t[i]

\* t[:, :1] and t[:, 1:] of a two-dimensional tensor: the second dimension kept
ColsTo1(t) == [i \in 1..Len(t) |-> SubSeq(t[i], 1, Min2(1, Len(t[i])))]

ColsFrom1(t) == [i \in 1..Len(t) |-> SubSeq(t[i], 2, Len(t[i]))]

----------------------------------------------------------------------------
(* torch.nn.functional.softplus, its derivative and tensordict's            *)
(* inv_softplus, on the grid of parameter values 541 + 500 k.               *)

\* the grid step of the parameter: one optimizer step moves lag by a multiple of it
Quantum == 5 * 10^2

SoftplusTable ==
    (-6459 :> 2) @@ (-5959 :> 3) @@ (-5459 :> 4) @@ (-4959 :> 7) @@ (-4459 :> 12) @@
    (-3959 :> 19) @@ (-3459 :> 31) @@ (-2959 :> 51) @@ (-2459 :> 82) @@ (-1959 :> 132) @@
    (-1459 :> 209) @@ (-959 :> 324) @@ (-459 :> 490) @@ (41 :> 714) @@ (541 :> 1000) @@
    (1041 :> 1343) @@ (1541 :> 1735) @@ (2041 :> 2163) @@ (2541 :> 2617) @@ (3041 :> 3088) @@
    (3541 :> 3570) @@ (4041 :> 4058) @@ (4541 :> 4552) @@ (5041 :> 5047) @@ (5541 :> 5545) @@
    (6041 :> 6043) @@ (6541 :> 6542) @@ (7041 :> 7042) @@ (7541 :> 7542)

\* d softplus(x) / dx = sigmoid(x): what autograd multiplies by
SigmoidTable ==
    (-6459 :> 2) @@ (-5959 :> 3) @@ (-5459 :> 4) @@ (-4959 :> 7) @@ (-4459 :> 11) @@
    (-3959 :> 19) @@ (-3459 :> 31) @@ (-2959 :> 49) @@ (-2459 :> 79) @@ (-1959 :> 124) @@
    (-1459 :> 189) @@ (-959 :> 277) @@ (-459 :> 387) @@ (41 :> 510) @@ (541 :> 632) @@
    (1041 :> 739) @@ (1541 :> 824) @@ (2041 :> 885) @@ (2541 :> 927) @@ (3041 :> 954) @@
    (3541 :> 972) @@ (4041 :> 983) @@ (4541 :> 989) @@ (5041 :> 994) @@ (5541 :> 996) @@
    (6041 :> 998) @@ (6541 :> 999) @@ (7041 :> 999) @@ (7541 :> 999)

\* log(expm1(y).clamp_min(1e-6)) for the initial values the model constructs with
InvSoftplusTable == (714 :> 41) @@ (1000 :> 541) @@ (1735 :> 1541)

\* A mis-stated projection: clamping at zero instead of softplus.
SoftplusAsRelu(x) == Max2(x, 0)

Softplus(x) == SoftplusTable[x]

SoftplusGrad(x) == SigmoidTable[x]

inv_softplus(y) == InvSoftplusTable[y]

----------------------------------------------------------------------------
(* Autograd: a scalar carries its value, whether it is attached to the      *)
(* parameter lag in the graph, and its derivative with respect to lag.      *)

Scalar(v, r, g) == [val |-> v, req |-> r, d |-> g]

Const(v) == Scalar(v, FALSE, 0)

Detach(x) == Scalar(x.val, FALSE, 0)

\* softplus(lag), attached
SoftplusOf(raw) == Scalar(Softplus(raw), TRUE, SoftplusGrad(raw))

\* x * c for a constant c
Scale(x, c) == Scalar(FMul(x.val, c), x.req, FMul(x.d, c))

Neg(x) == Scalar(-x.val, x.req, -x.d)

----------------------------------------------------------------------------
(* NaiveLagrange (agents/naive_lagrange.py) *)

\* __init__: lag = Parameter(inv_softplus(initial_value))
NaiveInit(initial_value) == inv_softplus(initial_value)

\* self.proj = torch.nn.functional.softplus
NaiveProj(raw) == SoftplusOf(raw)

\* A dual loss with the sign of the penalty dropped.
NaiveForwardNoMinus(raw, avg_violation, cost_scale) ==
    [i \in 1..Len(avg_violation) |->
        Scale(Scale(NaiveProj(raw), avg_violation[i]), cost_scale)]

\* forward: -self.proj(self.lag) * tdict['avg_violation'] * cost_scale, elementwise
NaiveForward(raw, avg_violation, cost_scale) ==
    [i \in 1..Len(avg_violation) |->
        Scale(Scale(Neg(NaiveProj(raw)), avg_violation[i]), cost_scale)]

\* get: self.proj(self.lag).detach()
NaiveGet(raw) == Detach(NaiveProj(raw))

\* get_logs: TensorDict({'lagrangian': [self.get()]}, batch_size=1)
NaiveGetLogs(raw) == [lagrangian |-> <<NaiveGet(raw).val>>]

----------------------------------------------------------------------------
(* TensorDict.  An object of the heap is a container: its tensor entries   *)
(* (key -> tensor) and the object holding its nested 'next' container      *)
(* (0: none).  Object 1 is the caller's batch, object 2 its 'next'.        *)

NoKeys == [k \in {} |-> 0]

NoObject == [t |-> NoKeys, next |-> 0]

Objects == 1..4

\* td.set(key, value): the entry is replaced, or added
TDSet(h, id, key, value) ==
    [h EXCEPT ![id] = [@ EXCEPT !.t = (key :> value) @@ @]]

\* td.set(('next', key), value)
TDSetNext(h, id, key, value) == TDSet(h, h[id].next, key, value)

TDGet(h, id, key) == h[id].t[key]

TDGetNext(h, id, key) == h[h[id].next].t[key]

\* td.clone(False): new containers, the nested one included, holding the same tensors
TDClone(h, src, dst) ==
    IF h[src].next = 0
    THEN [h EXCEPT ![dst] = [t |-> h[src].t, next |-> 0]]
    ELSE [h EXCEPT ![dst] = [t |-> h[src].t, next |-> dst + 1],
                   ![dst + 1] = [t |-> h[h[src].next].t, next |-> 0]]

\* what a callee handed object id can read: the entries and the nested entries
TDView(h, id) ==
    [t |-> h[id].t, next |-> IF h[id].next = 0 THEN NoKeys ELSE h[h[id].next].t]

----------------------------------------------------------------------------
(* Collaborators of the loss module, passed to its constructor.  They are   *)
(* not part of the module; each is a fixed stand-in with the collaborator's *)
(* interface, so that what the module hands it decides what it returns.     *)

\* exp, at the log-weights the batches hold
ExpTable ==
    (-693 :> 500) @@ (-223 :> 800) @@ (-105 :> 900) @@ (0 :> 1000) @@
    (95 :> 1100) @@ (182 :> 1200) @@ (693 :> 2000)

\* log1p, at +/- the clip epsilons
Log1pTable == (-200 :> -223) @@ (-100 :> -105) @@ (100 :> 95) @@ (200 :> 182)

Exp(x) == ExpTable[x]

Log1p(x) == Log1pTable[x]

\* the actor: the log-probability of the batch's actions under the current policy
ActorLogProb(view) == Zeros(Len(view.t["sample_log_prob"]))

\* the actor's distribution: its entropy per transition
ActorEntropy(view) == [i \in 1..Len(view.t["sample_log_prob"]) |-> 500]

\* the reward critic and the cost critic, on the observations
CriticNet(view) == view.t["observation"]

SafeCriticNet(view) == [i \in 1..Len(view.t["observation"]) |-> -view.t["observation"][i]]

\* the reward a value estimator reads at transition i: the first channel exposed
ExposedReward(view, i) ==
    LET row == view.next["reward"][i] IN IF Len(row) = 0 THEN 0 ELSE row[1]

\* a value estimator: one-step targets and advantages from the exposed reward and
\* the values of its critic; kind "short" leaves the last transition out
Estimate(kind, view, values) ==
    LET n == Len(view.next["reward"])
        m == IF kind = "short" THEN n - 1 ELSE n
        target == [i \in 1..m |-> ExposedReward(view, i)]
    IN  [value_target |-> target,
         advantage |-> [i \in 1..m |-> target[i] - values[i]]]

----------------------------------------------------------------------------
(* PPOLagLoss (agents/ppolag.py) *)

\* __init__: lag = Parameter(inv_softplus(initial_lagrangian))
PPOLagInit(initial_lagrangian) == inv_softplus(initial_lagrangian)

\* The multiplier left attached to the parameter.
LagrangianAttached(raw) == SoftplusOf(raw)

\* the property lagrangian: softplus(self.lag).detach()
Lagrangian(raw) == Detach(SoftplusOf(raw))

\* A dual loss that skips the batch mean and the sign.
LagrangianLossNoMinus(raw, avg_violation) ==
    Scale(SoftplusOf(raw), Mean(avg_violation))

\* forward, line 66: -softplus(self.lag) * tdict.get('avg_violation').mean()
LagrangianLoss(raw, avg_violation) ==
    Scale(Neg(SoftplusOf(raw)), Mean(avg_violation))

\* ClipPPOLoss._clip_bounds: (log1p(-clip_epsilon), log1p(clip_epsilon))
ClipBounds(c) == <<Log1p(-c.clip_epsilon), Log1p(c.clip_epsilon)>>

Clamp(x, lo, hi) == Min2(Max2(x, lo), hi)

\* ClipPPOLoss._log_weight: log-probability now minus the one the batch was sampled with
LogWeight(view) ==
    [i \in 1..Len(view.t["sample_log_prob"]) |->
        ActorLogProb(view)[i] - view.t["sample_log_prob"][i]]

\* lines 88-91 / 92-95: standardize, the deviation floored at 1e-6 (below a
\* thousandth: a deviation of 0 thousandths divides by the floor)
Standardize(adv) ==
    IF Numel(adv) > 1
    THEN LET n == Numel(adv)
             loc == Mean(adv)
             dev == [i \in 1..n |-> n * adv[i] - Sum(adv)]
             ss == Sum([i \in 1..n |-> dev[i] * dev[i]])
             scale == ISqrt(RDiv(ss, n * n * (n - 1)))
         IN  [i \in 1..n |->
                 IF scale = 0 THEN (adv[i] - loc) * 10^6 ELSE FDiv(adv[i] - loc, scale)]
    ELSE adv

\* line 101: log_weight.exp() * r_advantage
RGain1(log_weight, r_advantage) ==
    [i \in 1..BLen(log_weight, r_advantage) |->
        FMul(Exp(At(log_weight, i)), At(r_advantage, i))]

\* line 102: log_weight.clamp(*self._clip_bounds).exp() * r_advantage
RGain2(log_weight, r_advantage, bounds) ==
    [i \in 1..BLen(log_weight, r_advantage) |->
        FMul(Exp(Clamp(At(log_weight, i), bounds[1], bounds[2])), At(r_advantage, i))]

\* A surrogate that keeps the larger of the two gains.
RGainMax(gain1, gain2) == [i \in 1..Len(gain1) |-> Max2(gain1[i], gain2[i])]

\* line 103: torch.stack([r_gain1, r_gain2], -1).min(dim=-1)[0]
RGain(gain1, gain2) == [i \in 1..Len(gain1) |-> Min2(gain1[i], gain2[i])]

\* line 104: log_weight.exp() * c_advantage
CGain(log_weight, c_advantage) ==
    [i \in 1..BLen(log_weight, c_advantage) |->
        FMul(Exp(At(log_weight, i)), At(c_advantage, i))]

\* An actor loss without the (1 + lambda) normalization.
LossPiUnnormalized(lam, r_gain, c_gain) ==
    Scalar(Mean([i \in 1..BLen(r_gain, c_gain) |->
                    -At(r_gain, i) + FMul(lam.val, At(c_gain, i))]),
           lam.req, FMul(lam.d, Mean(c_gain)))

\* line 106: (-r_gain + self.lagrangian * c_gain).mean() / (1 + self.lagrangian);
\* its derivative in lag, when lam is attached: lam' * (mean(c_gain) - loss) / (1 + lam)
LossPi(lam, r_gain, c_gain) ==
    LET terms == [i \in 1..BLen(r_gain, c_gain) |->
                     -At(r_gain, i) + FMul(lam.val, At(c_gain, i))]
        val == FDiv(Mean(terms), Milli + lam.val)
    IN  Scalar(val, lam.req,
               IF lam.req THEN FDiv(FMul(lam.d, Mean(c_gain) - val), Milli + lam.val) ELSE 0)

\* torchrl.objectives.distance_loss, elementwise
DistanceLoss(target, pred, loss_function) ==
    [i \in 1..BLen(target, pred) |->
        LET x == Abs(At(target, i) - At(pred, i))
        IN  IF loss_function = "l2" THEN FMul(x, x)
            ELSE IF loss_function = "l1" THEN x
            ELSE IF x < Milli THEN FMul(500, FMul(x, x)) ELSE x - 500]

\* lines 116-121 / 123-128: critic_coef * distance_loss(target, pred), then .mean()
CriticLoss(c, target, pred) ==
    Const(Mean([i \in 1..BLen(target, pred) |->
                   FMul(c.critic_coef, DistanceLoss(target, pred, c.loss_critic_type)[i])]))

\* The state of one call of forward: the heap, the scratch object, the local
\* td_out, the tensors of lines 84-104, what each estimator was handed, and how the
\* call stands ("running", then "ok" or "raised").
NoLocals ==
    [log_weight |-> <<>>, r_advantage |-> <<>>, c_advantage |-> <<>>,
     r_gain1 |-> <<>>, r_gain2 |-> <<>>, r_gain |-> <<>>, c_gain |-> <<>>]

NoView == [t |-> NoKeys, next |-> NoKeys]

Frame(h, tmp_td, raw, c, train_lagrangian) ==
    [status |-> "running", exc |-> "", ret |-> NoKeys, td_out |-> NoKeys, heap |-> h,
     tmp_td |-> tmp_td, raw |-> raw, c |-> c, train_lagrangian |-> train_lagrangian,
     r_seen |-> NoView, c_seen |-> NoView, locals |-> NoLocals]

\* an exception leaves forward: the local td_out is dropped, nothing is returned
Raised(f, exc) == [f EXCEPT !.status = "raised", !.exc = exc]

\* line 133: return td_out
Returned(f) == [f EXCEPT !.status = "ok", !.ret = f.td_out]

\* A scratch batch that is the caller's batch itself.
ScratchIsInput(h, tdict) == [heap |-> h, id |-> tdict]

\* line 61: tmp_td = tdict.clone(False); the scratch copy is objects 3 and 4
Scratch(h, tdict) == [heap |-> TDClone(h, tdict, 3), id |-> 3]

\* lines 64-67: the dual-loss branch
DualBranch(raw, avg_violation, train_lagrangian) ==
    IF train_lagrangian
    THEN ("loss_lagrangian" :> LagrangianLoss(raw, avg_violation))
    ELSE NoKeys

\* lines 61-68; tdict is object 1
Lines61to68(h, raw, c, train_lagrangian) ==
    LET s == Scratch(h, 1)
    IN  [Frame(s.heap, s.id, raw, c, train_lagrangian) EXCEPT
            !.td_out = ("lagrangian" :> Lagrangian(raw))
                       @@ DualBranch(raw, TDGet(h, 1, "avg_violation"), train_lagrangian)]

\* line 71: tmp_td.set(('next', 'reward'), tdict.get(('next', 'reward'))[:, :1])
ExposeReward(f) ==
    [f EXCEPT !.heap = TDSetNext(@, f.tmp_td, "reward", ColsTo1(TDGetNext(@, 1, "reward")))]

\* lines 72-76: the reward estimator writes its advantage and value target
RunRewardEstimator(f) ==
    LET seen == TDView(f.heap, f.tmp_td)
        est == Estimate(f.c.r_value_estimator, seen, CriticNet(seen))
    IN  [f EXCEPT !.r_seen = seen,
                  !.heap = TDSet(TDSet(@, f.tmp_td, "r_advantage", est.advantage),
                                 f.tmp_td, "r_value_target", est.value_target)]

\* A cost estimator handed the reward channel.
ExposeCostAsReward(f) == ExposeReward(f)

\* line 77: tmp_td.set(('next', 'reward'), tdict.get(('next', 'reward'))[:, 1:])
ExposeCost(f) ==
    [f EXCEPT !.heap = TDSetNext(@, f.tmp_td, "reward", ColsFrom1(TDGetNext(@, 1, "reward")))]

\* lines 78-82: the cost estimator
RunCostEstimator(f) ==
    LET seen == TDView(f.heap, f.tmp_td)
        est == Estimate(f.c.c_value_estimator, seen, SafeCriticNet(seen))
    IN  [f EXCEPT !.c_seen = seen,
                  !.heap = TDSet(TDSet(@, f.tmp_td, "c_advantage", est.advantage),
                                 f.tmp_td, "c_value_target", est.value_target)]

\* lines 84-95: the advantages, standardized when normalize_advantage is set
Lines84to95(f) ==
    [f EXCEPT !.locals.r_advantage =
                  IF f.c.normalize_advantage
                  THEN Standardize(TDGet(f.heap, f.tmp_td, "r_advantage"))
                  ELSE TDGet(f.heap, f.tmp_td, "r_advantage"),
              !.locals.c_advantage =
                  IF f.c.normalize_advantage
                  THEN Standardize(TDGet(f.heap, f.tmp_td, "c_advantage"))
                  ELSE TDGet(f.heap, f.tmp_td, "c_advantage")]

\* An assertion that lets every shape through.
ShapesAgreeUnchecked(log_weight, r_advantage, c_advantage) == TRUE

\* line 99: c_advantage.shape == log_weight.shape and r_advantage.shape == log_weight.shape
ShapesAgree(log_weight, r_advantage, c_advantage) ==
    Len(c_advantage) = Len(log_weight) /\ Len(r_advantage) = Len(log_weight)

\* lines 98-99: the log-weight and the assertion
Lines98to99(f) ==
    LET g == [f EXCEPT !.locals.log_weight = LogWeight(TDView(f.heap, f.tmp_td))]
    IN  IF ShapesAgree(g.locals.log_weight, g.locals.r_advantage, g.locals.c_advantage)
        THEN g ELSE Raised(g, "AssertionError")

\* lines 101-107: the gains and the actor loss; shapes that do not broadcast raise
Lines101to107(f) ==
    LET w == f.locals.log_weight
        g == [f EXCEPT !.locals.r_gain1 = RGain1(w, f.locals.r_advantage),
                       !.locals.r_gain2 = RGain2(w, f.locals.r_advantage, ClipBounds(f.c)),
                       !.locals.c_gain = CGain(w, f.locals.c_advantage)]
        k == [g EXCEPT !.locals.r_gain = RGain(g.locals.r_gain1, g.locals.r_gain2)]
    IN  IF f.status # "running" THEN f
        ELSE IF ~(Broadcastable(w, f.locals.r_advantage)
                  /\ Broadcastable(w, f.locals.c_advantage)
                  /\ Broadcastable(f.locals.r_advantage, f.locals.c_advantage))
        THEN Raised(f, "RuntimeError")
        ELSE [k EXCEPT !.td_out =
                 ("loss_pi" :> LossPi(Lagrangian(f.raw), k.locals.r_gain, k.locals.c_gain))
                 @@ @]

\* lines 111-113: the entropy entries
EntropyEntries(c, entropy) ==
    (IF c.entropy_bonus
     THEN ("loss_entropy" :> Const(FMul(-c.entropy_coef, Mean(entropy))))
     ELSE NoKeys)
    @@ ("entropy" :> Const(Mean(entropy)))

\* lines 110-113
Lines110to113(f) ==
    IF f.status # "running" THEN f
    ELSE [f EXCEPT !.td_out =
             EntropyEntries(f.c, ActorEntropy(TDView(f.heap, f.tmp_td))) @@ @]

\* lines 130-131: one entry per critic
CriticEntries(r_loss, c_loss) ==
    ("loss_r_critic" :> r_loss) @@ ("loss_c_critic" :> c_loss)

\* lines 116-121: the reward critic's prediction (written to the scratch) and loss
Lines116to121(f) ==
    LET pred == CriticNet(TDView(f.heap, f.tmp_td))
    IN  IF f.status # "running" THEN f
        ELSE IF ~Broadcastable(TDGet(f.heap, f.tmp_td, "r_value_target"), pred)
        THEN Raised(f, "RuntimeError")
        ELSE [f EXCEPT !.heap = TDSet(@, f.tmp_td, "r_value", pred)]

\* lines 123-131: the cost critic's prediction and loss, the two critic entries
Lines123to131(f) ==
    LET pred == SafeCriticNet(TDView(f.heap, f.tmp_td))
        g == [f EXCEPT !.heap = TDSet(@, f.tmp_td, "c_value", pred)]
    IN  IF f.status # "running" THEN f
        ELSE IF ~Broadcastable(TDGet(f.heap, f.tmp_td, "c_value_target"), pred)
        THEN Raised(f, "RuntimeError")
        ELSE [g EXCEPT !.td_out =
                 CriticEntries(
                     CriticLoss(f.c, TDGet(f.heap, f.tmp_td, "r_value_target"),
                                TDGet(f.heap, f.tmp_td, "r_value")),
                     CriticLoss(f.c, TDGet(f.heap, f.tmp_td, "c_value_target"), pred))
                 @@ @]

\* line 133
Line133(f) == IF f.status # "running" THEN f ELSE Returned(f)

\* forward(tdict, train_lagrangian) on the heap h, tdict being object 1
PPOLagForward(h, raw, c, train_lagrangian) ==
    Line133(Lines123to131(Lines116to121(Lines110to113(Lines101to107(Lines98to99(
        Lines84to95(RunCostEstimator(ExposeCost(RunRewardEstimator(ExposeReward(
            Lines61to68(h, raw, c, train_lagrangian))))))))))))

\* the keys of the base class's out_keys (torchrl's PPOLoss): a list
SuperOutKeys(c) ==
    <<"loss_objective">>
    \o (IF c.entropy_bonus THEN <<"entropy", "loss_entropy">> ELSE <<>>)
    \o <<"loss_critic">>

\* the property out_keys, lines 47-54.  In the base class out_keys is a property,
\* so super().out_keys is the list itself and line 50 calls a list: TypeError, and
\* lines 51-53 are not reached.  Whether the base class's getter has by then stored
\* its own list in self._out_keys depends on the torchrl release (base_caches); when
\* it has, every later access returns the base class's list.
OutKeys(cache, c, base_caches) ==
    IF cache.set
    THEN [outcome |-> "returned", keys |-> cache.cached, cache |-> cache]
    ELSE [outcome |-> "TypeError", keys |-> <<>>,
          cache |-> IF base_caches THEN [set |-> TRUE, cached |-> SuperOutKeys(c)]
                    ELSE [set |-> FALSE, cached |-> <<>>]]

----------------------------------------------------------------------------
(* The optimizer of train.py: Adam over loss_module.parameters(), lag among *)
(* them.  Of Adam's state the first moment decides the direction of a step; *)
(* m stands for the moment times 10^t, which keeps it an integer.  The size *)
(* of a step (the learning rate the cosine schedule gives, over the second  *)
(* moment) is a positive number of grid steps, chosen by the environment.   *)

Beta1Num == 9

Beta1Den == 10

NoGrad == [none |-> TRUE, val |-> 0]

LossKeys == {"loss_lagrangian", "loss_pi", "loss_entropy", "loss_r_critic", "loss_c_critic"}

\* backward() on the sum of the loss entries: lag.grad, None when no entry is attached
Backward(td_out) ==
    LET attached == {k \in DOMAIN td_out \cap LossKeys : td_out[k].req}
    IN  IF attached = {} THEN NoGrad
        ELSE [none |-> FALSE,
              val |-> Sum([i \in 1..5 |->
                  LET k == <<"loss_lagrangian", "loss_pi", "loss_entropy",
                             "loss_r_critic", "loss_c_critic">>[i]
                  IN  IF k \in attached THEN td_out[k].d ELSE 0])]

\* Adam.step() for the parameter lag: skipped when lag.grad is None
AdamStep(raw, st, grad, stride) ==
    IF grad.none THEN [lag |-> raw, adam |-> st]
    ELSE LET m == Beta1Num * st.m + (Beta1Den - Beta1Num) * grad.val * Beta1Den^st.t
         IN  [lag |-> raw - Sign(m) * stride * Quantum, adam |-> [m |-> m, t |-> st.t + 1]]

\* one step of gradient descent on NaiveLagrange's loss, summed over the batch
NaiveDescent(raw, loss, stride) ==
    raw - Sign(Sum([i \in 1..Len(loss) |-> loss[i].d])) * stride * Quantum

----------------------------------------------------------------------------
(* Inputs *)

\* constructor arguments: ClipPPOLoss's defaults, and one change at a time
DefaultConfig ==
    [entropy_bonus |-> TRUE, entropy_coef |-> 10, normalize_advantage |-> FALSE,
     clip_epsilon |-> 200, critic_coef |-> Milli, loss_critic_type |-> "smooth_l1",
     r_value_estimator |-> "td0", c_value_estimator |-> "td0"]

Configs ==
    {DefaultConfig,
     [DefaultConfig EXCEPT !.entropy_bonus = FALSE],
     [DefaultConfig EXCEPT !.normalize_advantage = TRUE],
     [DefaultConfig EXCEPT !.clip_epsilon = 100, !.loss_critic_type = "l2"],
     [DefaultConfig EXCEPT !.c_value_estimator = "short"],
     [DefaultConfig EXCEPT !.r_value_estimator = "short", !.c_value_estimator = "short"]}

InitialValues == DOMAIN InvSoftplusTable

Batch(avg_violation, reward, sample_log_prob, observation) ==
    [avg_violation |-> avg_violation, reward |-> reward,
     sample_log_prob |-> sample_log_prob, observation |-> observation]

\* one transition: every log-weight of the table, both signs of reward and cost
OneTransition(slp, r, c) == Batch(<<c>>, << <<r, c>> >>, <<slp>>, <<0>>)

SingleBatches ==
    {OneTransition(-w, r, c) : w \in DOMAIN ExpTable, r \in {-1000, 1000}, c \in {-1000, 1000}}

\* reward-advantage [1,-1,2,-2], cost-advantage [0,0,0,0], log-weight [0,0,0,0]
ScenarioA ==
    Batch(<<-1000, -1000, -1000, -1000>>,
          << <<1000, 0>>, <<-1000, 0>>, <<2000, 0>>, <<-2000, 0>> >>,
          <<0, 0, 0, 0>>, <<0, 0, 0, 0>>)

\* the same with cost-advantage [1,1,1,1]
ScenarioB ==
    Batch(<<1000, 1000, 1000, 1000>>,
          << <<1000, 1000>>, <<-1000, 1000>>, <<2000, 1000>>, <<-2000, 1000>> >>,
          <<0, 0, 0, 0>>, <<0, 0, 0, 0>>)

\* two transitions clipped on either side, critics that predict something
Mixed ==
    Batch(<<2000, -1000>>, << <<2000, 1000>>, <<-1000, -1000>> >>,
          <<693, -693>>, <<500, -500>>)

Negative == Batch(<<-2000>>, << <<1000, -1000>> >>, <<0>>, <<0>>)

\* log-probabilities of 4, 1 and 2 transitions beside rewards of 3, 2 and 3
Malformed ==
    {Batch(<<1000>>, << <<1000, 1000>>, <<-1000, 0>>, <<2000, 1000>> >>,
           <<0, 0, 0, 0>>, <<0, 0, 0>>),
     Batch(<<1000>>, << <<1000, 1000>>, <<-1000, 0>> >>, <<-95>>, <<0, 0>>),
     Batch(<<1000>>, << <<1000, 1000>>, <<-1000, 0>>, <<2000, 1000>> >>,
           <<0, 105>>, <<0, 0, 0>>)}

Batches == SingleBatches \cup {ScenarioA, ScenarioB, Mixed, Negative} \cup Malformed

TrainBatches == {ScenarioB, Mixed, Negative}

CostScales == {500, 1000, 2000}

\* the cost scales of the training runs
TrainCostScales == {1000, 2000}

\* the sizes of an optimizer step, in grid steps: the learning rate the schedule
\* gives over the root of the second moment is some positive number
Strides == {1, 2}

Violations == {<<1000>>, <<-2000>>, <<500, -1500>>, <<0>>}

\* the heap a caller passes a batch in: object 1, its 'next' in object 2
HeapOf(b) ==
    [o \in Objects |->
        IF o = 1 THEN [t |-> ("avg_violation" :> b.avg_violation)
                             @@ ("sample_log_prob" :> b.sample_log_prob)
                             @@ ("observation" :> b.observation),
                       next |-> 2]
        ELSE IF o = 2 THEN [t |-> ("reward" :> b.reward), next |-> 0]
        ELSE NoObject]

----------------------------------------------------------------------------
(* Bounds *)

\* optimizer steps on the two Lagrange parameters together
MaxSteps == 3

----------------------------------------------------------------------------
(* State machine *)

NoResult == [Frame([o \in Objects |-> NoObject], 0, 0, DefaultConfig, FALSE) EXCEPT !.status = "none"]

NoCall ==
    [op |-> "none", batch |-> Batch(<<>>, <<>>, <<>>, <<>>), train_lagrangian |-> FALSE,
     cost_scale |-> 0, res |-> NoResult, nl_ret |-> <<>>]

NoIteration == [kind |-> "none", viol |-> 0, lam_before |-> 0]

Init ==
    /\ cfg \in Configs
    /\ \E v \in InitialValues : lag = PPOLagInit(v)
    /\ \E v \in InitialValues : nl_lag = NaiveInit(v)
    /\ adam = [m |-> 0, t |-> 0]
    /\ nl_steps = 0
    /\ okeys = [set |-> FALSE, cached |-> <<>>, keys |-> <<>>, outcome |-> "unset"]
    /\ call = NoCall
    /\ last = NoIteration

\* loss_module(tdict, train_lagrangian=...)
CallForward(b, train_lagrangian) ==
    /\ call' = [NoCall EXCEPT !.op = "forward", !.batch = b,
                              !.train_lagrangian = train_lagrangian,
                              !.res = PPOLagForward(HeapOf(b), lag, cfg, train_lagrangian)]
    /\ UNCHANGED <<cfg, lag, adam, nl_lag, nl_steps, okeys, last>>

\* naive_lagrange(tdict, cost_scale)
CallNaiveForward(v, cost_scale) ==
    /\ call' = [NoCall EXCEPT !.op = "naive", !.batch = Batch(v, <<>>, <<>>, <<>>),
                              !.cost_scale = cost_scale,
                              !.nl_ret = NaiveForward(nl_lag, v, cost_scale)]
    /\ UNCHANGED <<cfg, lag, adam, nl_lag, nl_steps, okeys, last>>

\* loss_module.out_keys
AccessOutKeys(base_caches) ==
    /\ LET r == OutKeys(okeys, cfg, base_caches)
       IN  okeys' = [set |-> r.cache.set, cached |-> r.cache.cached,
                     keys |-> r.keys, outcome |-> r.outcome]
    /\ UNCHANGED <<cfg, lag, adam, nl_lag, nl_steps, call, last>>

Next ==
    \/ \E b \in Batches, train_lagrangian \in BOOLEAN : CallForward(b, train_lagrangian)
    \/ \E v \in Violations, c \in CostScales : CallNaiveForward(v, c)
    \/ \E base_caches \in BOOLEAN : AccessOutKeys(base_caches)

Spec == Init /\ [][Next]_vars

\* one optimization step of the training loop on a minibatch: forward, backward on
\* the summed loss entries, optimizer step; a failing forward ends the step
TrainIteration(b, train_lagrangian, stride) ==
    LET res == PPOLagForward(HeapOf(b), lag, cfg, train_lagrangian)
        new == AdamStep(lag, adam, Backward(res.ret), stride)
    IN  /\ adam.t + nl_steps < MaxSteps
        /\ call' = [NoCall EXCEPT !.op = "forward", !.batch = b,
                                  !.train_lagrangian = train_lagrangian, !.res = res]
        /\ last' = [kind |-> IF res.status # "ok" THEN "failed"
                             ELSE IF train_lagrangian THEN "dual" ELSE "policy",
                    viol |-> Mean(b.avg_violation),
                    lam_before |-> Lagrangian(lag).val]
        /\ IF res.status = "ok"
           THEN lag' = new.lag /\ adam' = new.adam
           ELSE UNCHANGED <<lag, adam>>
        /\ UNCHANGED <<cfg, nl_lag, nl_steps, okeys>>

\* a dual update of a NaiveLagrange module: gradient descent on its loss
NaiveDualStep(v, cost_scale, stride) ==
    /\ adam.t + nl_steps < MaxSteps
    /\ nl_lag' = NaiveDescent(nl_lag, NaiveForward(nl_lag, v, cost_scale), stride)
    /\ nl_steps' = nl_steps + 1
    /\ call' = [NoCall EXCEPT !.op = "naive", !.batch = Batch(v, <<>>, <<>>, <<>>),
                              !.cost_scale = cost_scale,
                              !.nl_ret = NaiveForward(nl_lag, v, cost_scale)]
    /\ last' = [kind |-> "naive_dual", viol |-> FMul(Mean(v), cost_scale),
                lam_before |-> NaiveGet(nl_lag).val]
    /\ UNCHANGED <<cfg, lag, adam, okeys>>

InitTrain ==
    /\ Init
    /\ cfg \in {DefaultConfig, [DefaultConfig EXCEPT !.c_value_estimator = "short"]}
    /\ nl_lag = lag

NextTrain ==
    \/ \E b \in TrainBatches, train_lagrangian \in BOOLEAN, stride \in Strides :
           TrainIteration(b, train_lagrangian, stride)
    \/ \E v \in Violations, c \in TrainCostScales, stride \in Strides :
           NaiveDualStep(v, c, stride)

SpecTrain == InitTrain /\ [][NextTrain]_vars

----------------------------------------------------------------------------
(* Properties *)

ForwardCalled == call.op = "forward"

ForwardReturned == ForwardCalled /\ call.res.status = "ok"

\* the keys a successful forward(tdict, train_lagrangian) is to return
ExpectedKeys(train_lagrangian, c) ==
    {"lagrangian", "loss_pi", "entropy", "loss_r_critic", "loss_c_critic"}
    \cup (IF train_lagrangian THEN {"loss_lagrangian"} ELSE {})
    \cup (IF c.entropy_bonus THEN {"loss_entropy"} ELSE {})

\* every key forward can emit under the configuration
EmittableKeys(c) == ExpectedKeys(TRUE, c) \cup ExpectedKeys(FALSE, c)

SeqRange(q) == {q[i] : i \in 1..Len(q)}

\* The first half of C1 alone: a successful forward returns exactly the expected keys.
ForwardKeysExact ==
    ForwardReturned => DOMAIN call.res.ret = ExpectedKeys(call.train_lagrangian, cfg)

\* C1: a successful forward returns exactly the keys {lagrangian, loss_pi, entropy,
\* loss_r_critic, loss_c_critic}, plus loss_lagrangian iff train_lagrangian, plus
\* loss_entropy iff the entropy bonus is configured; and the key list the property
\* out_keys declares is the set of keys forward can emit.
C1_OutputKeys ==
    /\ ForwardKeysExact
    /\ okeys.outcome # "unset" =>
           /\ okeys.outcome = "returned"
           /\ SeqRange(okeys.keys) = EmittableKeys(cfg)

\* the actor loss as C2 states it, from the log-weight w, the advantages and lambda
ClaimedLossPi(w, a_r, a_c, lam, bounds) ==
    FDiv(RDiv(Sum([i \in 1..Len(w) |->
                 -Min2(FMul(ExpTable[w[i]], a_r[i]),
                       FMul(ExpTable[Clamp(w[i], bounds[1], bounds[2])], a_r[i]))
                 + FMul(lam, FMul(ExpTable[w[i]], a_c[i]))]),
              Len(w)),
         Milli + lam)

\* C2: loss_pi = mean(-min(exp(w) A_r, exp(clip(w)) A_r) + lambda exp(w) A_c) / (1 + lambda);
\* with A_r = [1,-1,2,-2] and w = 0 it is 0.0 when A_c = 0 (for lambda = 0 as for every
\* other multiplier) and 0.5 when lambda = 1 and A_c = [1,1,1,1].
C2_ActorLoss ==
    ForwardReturned =>
        LET L == call.res.locals
            lam == SoftplusTable[lag]
            loss_pi == call.res.ret["loss_pi"].val
            scenario == /\ L.r_advantage = <<1000, -1000, 2000, -2000>>
                        /\ L.log_weight = <<0, 0, 0, 0>>
        IN  /\ loss_pi = ClaimedLossPi(L.log_weight, L.r_advantage, L.c_advantage, lam,
                                       <<Log1pTable[-cfg.clip_epsilon],
                                         Log1pTable[cfg.clip_epsilon]>>)
            /\ scenario /\ L.c_advantage = <<0, 0, 0, 0>> => loss_pi = 0
            /\ scenario /\ L.c_advantage = <<1000, 1000, 1000, 1000>> /\ lam = 1000
                   => loss_pi = 500

\* the second scenario of C2 has happened: lambda = 1, loss_pi = 0.5
C2_Witness ==
    /\ ForwardReturned
    /\ call.res.locals.r_advantage = <<1000, -1000, 2000, -2000>>
    /\ call.res.locals.c_advantage = <<1000, 1000, 1000, 1000>>
    /\ call.res.locals.log_weight = <<0, 0, 0, 0>>
    /\ SoftplusTable[lag] = 1000
    /\ call.res.ret["loss_pi"].val = 500

ShapesDiffer(L) ==
    \/ Len(L.log_weight) # Len(L.r_advantage)
    \/ Len(L.log_weight) # Len(L.c_advantage)

\* C3: when the log-weight's shape differs from an advantage's, forward fails at the
\* assertion and the caller receives no output mapping; a call returns the full
\* mapping or nothing, also when td_out already held entries.
C3_ShapeMismatchFails ==
    ForwardCalled =>
        /\ ShapesDiffer(call.res.locals) =>
               /\ call.res.status = "raised"
               /\ call.res.exc = "AssertionError"
        /\ call.res.status = "raised" => DOMAIN call.res.ret = {}
        /\ call.res.status = "ok" =>
               DOMAIN call.res.ret = ExpectedKeys(call.train_lagrangian, cfg)

\* log-weight (4,) against cost-advantage (3,), with train_lagrangian set: td_out held
\* loss_lagrangian and lagrangian when the assertion failed, the caller got nothing
C3_Witness ==
    /\ ForwardCalled
    /\ call.train_lagrangian
    /\ call.res.status = "raised"
    /\ Len(call.res.locals.log_weight) = 4
    /\ Len(call.res.locals.c_advantage) = 3
    /\ {"loss_lagrangian", "lagrangian"} \subseteq DOMAIN call.res.td_out
    /\ DOMAIN call.res.ret = {}

\* NaiveLagrange.forward returns -proj(raw) * avg_violation * cost_scale
NaiveReturnsDualLoss ==
    call.op = "naive" =>
        /\ Len(call.nl_ret) = Len(call.batch.avg_violation)
        /\ \A i \in 1..Len(call.nl_ret) :
               call.nl_ret[i].val =
                   FMul(FMul(-SoftplusTable[nl_lag], call.batch.avg_violation[i]),
                        call.cost_scale)

\* the two modules hold the same parameter and forward has emitted loss_lagrangian
SameParameterDualCall ==
    ForwardReturned /\ call.train_lagrangian /\ nl_lag = lag

\* C4 as stated: NaiveLagrange.forward returns -proj(raw) * avg_violation * cost_scale,
\* and PPOLagLoss.forward's loss_lagrangian is that same loss on the batch mean of
\* avg_violation, for every cost_scale.
C4_SameDualLoss ==
    /\ NaiveReturnsDualLoss
    /\ SameParameterDualCall =>
           \A cs \in CostScales :
               NaiveForward(nl_lag, <<Mean(call.batch.avg_violation)>>, cs)[1].val
                   = call.res.ret["loss_lagrangian"].val

\* C4 amended: loss_lagrangian carries no cost_scale; NaiveLagrange.forward on the
\* batch mean is loss_lagrangian times cost_scale, and the two agree at cost_scale = 1.
C4_DualLossUpToScale ==
    /\ NaiveReturnsDualLoss
    /\ SameParameterDualCall =>
           /\ \A cs \in CostScales :
                  NaiveForward(nl_lag, <<Mean(call.batch.avg_violation)>>, cs)[1].val
                      = FMul(call.res.ret["loss_lagrangian"].val, cs)
           /\ NaiveForward(nl_lag, <<Mean(call.batch.avg_violation)>>, Milli)[1].val
                  = call.res.ret["loss_lagrangian"].val

C4_Witness == SameParameterDualCall /\ call.res.ret["loss_lagrangian"].val # 0

C6_PolicyStepKeepsMultiplier ==
    /\ ForwardReturned /\ ~call.train_lagrangian =>
           \A k \in DOMAIN call.res.ret : ~call.res.ret[k].req
    /\ last.kind = "policy" => SoftplusTable[lag] = last.lam_before

\* a policy update taken after a dual update, with Adam's moment of lag non-zero
C6_Witness ==
    /\ last.kind = "policy"
    /\ adam.t > 0
    /\ adam.m # 0

\* C7: the multiplier NaiveLagrange.get and PPOLagLoss.lagrangian return is strictly
\* positive in every reachable state, so 1 + lambda is never zero.
C7_MultiplierPositive ==
    /\ Lagrangian(lag).val > 0
    /\ NaiveGet(nl_lag).val > 0
    /\ Milli + Lagrangian(lag).val # 0
    /\ ForwardReturned => call.res.ret["lagrangian"].val > 0

\* dual updates under negative violation have driven the parameter below zero
C7_Witness ==
    /\ last.kind = "dual"
    /\ last.viol < 0
    /\ lag < 0
    /\ nl_lag < 0

RewardOutputs == {"r_advantage", "r_value_target"}

\* C8 as stated: the estimators run on copies of the batch of their own that differ
\* only in the reward channel exposed, so the cost estimator's batch holds no field
\* the reward estimator wrote.
C8_EstimatorsOnOwnCopies ==
    ForwardCalled =>
        /\ call.res.r_seen.next["reward"] = ColsTo1(call.batch.reward)
        /\ call.res.c_seen.next["reward"] = ColsFrom1(call.batch.reward)
        /\ DOMAIN call.res.c_seen.t = DOMAIN call.res.r_seen.t
        /\ DOMAIN call.res.c_seen.t \cap RewardOutputs = {}

\* C8 amended: the two estimators run one after the other on one scratch copy; each
\* finds only its own channel under ('next','reward'); the cost estimator's batch is
\* the reward estimator's plus the advantage and value target that one wrote, which
\* the cost estimator leaves as they were.
C8_SharedScratch ==
    ForwardCalled =>
        LET r == call.res.r_seen
            c == call.res.c_seen
            tmp_td == call.res.heap[3].t
        IN  /\ r.next["reward"] = ColsTo1(call.batch.reward)
            /\ c.next["reward"] = ColsFrom1(call.batch.reward)
            /\ DOMAIN c.t = DOMAIN r.t \cup RewardOutputs
            /\ \A k \in DOMAIN r.t : c.t[k] = r.t[k]
            /\ \A k \in RewardOutputs : tmp_td[k] = c.t[k]
            /\ \A i \in 1..Len(c.t["r_value_target"]) :
                   c.t["r_value_target"][i] = call.batch.reward[i][1]
            /\ \A i \in 1..Len(tmp_td["c_value_target"]) :
                   tmp_td["c_value_target"][i] = call.batch.reward[i][2]

\* the cost estimator was handed a batch that held the reward estimator's outputs
C8_Witness ==
    /\ ForwardReturned
    /\ RewardOutputs \subseteq DOMAIN call.res.c_seen.t
    /\ call.res.c_seen.next["reward"] # call.res.r_seen.next["reward"]

\* C9: after any call of forward the caller's batch has the keys and the values it
\* had before; what the estimators and critics write goes to the scratch copy.
C9_InputBatchUntouched ==
    ForwardCalled =>
        /\ call.res.heap[1] = HeapOf(call.batch)[1]
        /\ call.res.heap[2] = HeapOf(call.batch)[2]
        /\ call.res.heap[2].t["reward"] = call.batch.reward
        /\ {"r_advantage", "r_value_target", "c_advantage", "c_value_target"}
               \subseteq DOMAIN call.res.heap[3].t
        /\ call.res.status = "ok" => {"r_value", "c_value"} \subseteq DOMAIN call.res.heap[3].t

\* a call has returned, the scratch holding the single-channel reward and the outputs
C9_Witness ==
    /\ ForwardReturned
    /\ call.res.heap[4].t["reward"] # call.batch.reward
    /\ {"r_advantage", "c_advantage", "r_value", "c_value"} \subseteq DOMAIN call.res.heap[3].t

\* C10 as stated: the clipped surrogate gain is <= the unclipped gain where the
\* advantage is >= 0, and >= the unclipped gain where the advantage is < 0.
C10_Pessimism ==
    ForwardReturned =>
        LET L == call.res.locals
        IN  \A i \in 1..Len(L.r_gain) :
                /\ L.r_advantage[i] >= 0 => L.r_gain[i] <= L.r_gain1[i]
                /\ L.r_advantage[i] < 0 => L.r_gain[i] >= L.r_gain1[i]

\* C10 amended: the surrogate gain is <= the unclipped gain whatever the sign of the
\* advantage; where the advantage is < 0 it equals the unclipped gain unless the
\* log-weight is below the lower clip bound.
C10_SurrogateLowerBound ==
    ForwardReturned =>
        LET L == call.res.locals
        IN  \A i \in 1..Len(L.r_gain) :
                /\ L.r_gain[i] <= L.r_gain1[i]
                /\ L.r_advantage[i] < 0 /\ L.log_weight[i] >= Log1pTable[-cfg.clip_epsilon]
                       => L.r_gain[i] = L.r_gain1[i]

\* a negative advantage with the weight clipped from below: the surrogate is smaller
C10_Witness ==
    /\ ForwardReturned
    /\ \E i \in 1..Len(call.res.locals.r_gain) :
           /\ call.res.locals.r_advantage[i] < 0
           /\ call.res.locals.r_gain[i] < call.res.locals.r_gain1[i]

====
